---------------------------- MODULE Spec2Model ----------------------------
(* LSB steganography codec of secret-image-sealer.                        *)
(* Strings are sequences of UTF-16 code units, byte arrays are sequences  *)
(* of 0..255, binary strings ('0'/'1' characters) are sequences of 0..1.  *)
(* Sequences are 1-based: the buffer index i of the code is position i+1. *)
EXTENDS Integers, Sequences, FiniteSets, TLC

(***************************************************************************)
(* Program constants                                                       *)
(***************************************************************************)
\* '$$END$$'
DELIMITER == <<36, 36, 69, 78, 68, 36, 36>>
\* 'STEGO1'
MAGIC_HEADER == <<83, 84, 69, 71, 79, 49>>

ERR_NO_MESSAGE == "No hidden message found in this image"
ERR_INVALID_LENGTH == "Invalid message length detected"
ERR_EXTRACT == "Failed to extract message"
ERR_TOO_LONG == "Text too long"

\* absolute cap on the declared length
MaxMessageLength == 10000000
\* safety limit of the legacy scan
LegacyTextLimit == 1000000

(***************************************************************************)
(* Generic helpers of the JavaScript runtime                               *)
(***************************************************************************)
Min(a, b) == IF a < b THEN a ELSE b

\* variant: the suffix is looked for anywhere (String.prototype.includes)
EndsWith_includes(s, suffix) ==
    \E k \in 1..(Len(s) - Len(suffix) + 1) : SubSeq(s, k, k + Len(suffix) - 1) = suffix

\* String.prototype.endsWith
EndsWith(s, suffix) ==
    /\ Len(s) >= Len(suffix)
    /\ SubSeq(s, Len(s) - Len(suffix) + 1, Len(s)) = suffix

\* String.prototype.slice(0, -n)
DropLast(s, n) == SubSeq(s, 1, Len(s) - n)

\* Number.prototype.toString(2): binary digits without leading zeros
RECURSIVE ToString2(_)
ToString2(n) == IF n < 2 THEN <<n>> ELSE Append(ToString2(n \div 2), n % 2)

\* String.prototype.padStart(8, '0')
PadStart8(b) == [k \in 1..(8 - Len(b)) |-> 0] \o b

\* parseInt(b, 2) of a string of 1..8 binary digits
RECURSIVE ParseInt2(_)
ParseInt2(b) ==
    IF b = <<>> THEN 0 ELSE 2 * ParseInt2(DropLast(b, 1)) + b[Len(b)]

\* binary.match(/.{1,8}/g): chunks of 8 characters, the last one possibly
\* shorter; the empty sequence stands for the null of an empty input
Match8(b) ==
    [j \in 1..((Len(b) + 7) \div 8) |-> SubSeq(b, 8 * j - 7, Min(8 * j, Len(b)))]

\* the loop `binary += bytes[i].toString(2).padStart(8, '0')`
RECURSIVE BytesToBinary(_)
BytesToBinary(bytes) ==
    IF bytes = <<>> THEN <<>>
    ELSE PadStart8(ToString2(Head(bytes))) \o BytesToBinary(Tail(bytes))

(***************************************************************************)
(* TextEncoder / TextDecoder('utf-8')                                      *)
(***************************************************************************)
IsHighSurrogate(c) == c >= 55296 /\ c <= 56319
IsLowSurrogate(c)  == c >= 56320 /\ c <= 57343
REPLACEMENT == 65533
BOM == 65279

\* conversion of a JavaScript string to scalar values (USVString): a
\* surrogate pair is one scalar, a lone surrogate becomes U+FFFD
RECURSIVE ToScalars(_)
ToScalars(s) ==
    IF s = <<>> THEN <<>>
    ELSE IF IsHighSurrogate(s[1]) /\ Len(s) >= 2 /\ IsLowSurrogate(s[2])
         THEN <<65536 + (s[1] - 55296) * 1024 + (s[2] - 56320)>>
                  \o ToScalars(SubSeq(s, 3, Len(s)))
    ELSE IF IsHighSurrogate(s[1]) \/ IsLowSurrogate(s[1])
         THEN <<REPLACEMENT>> \o ToScalars(Tail(s))
    ELSE <<s[1]>> \o ToScalars(Tail(s))

\* scalar values back to UTF-16 code units
RECURSIVE FromScalars(_)
FromScalars(cps) ==
    IF cps = <<>> THEN <<>>
    ELSE IF Head(cps) >= 65536
         THEN <<55296 + ((Head(cps) - 65536) \div 1024),
                56320 + ((Head(cps) - 65536) % 1024)>> \o FromScalars(Tail(cps))
    ELSE <<Head(cps)>> \o FromScalars(Tail(cps))

Utf8EncodeScalar(cp) ==
    IF cp < 128 THEN <<cp>>
    ELSE IF cp < 2048 THEN <<192 + (cp \div 64), 128 + (cp % 64)>>
    ELSE IF cp < 65536
         THEN <<224 + (cp \div 4096), 128 + ((cp \div 64) % 64), 128 + (cp % 64)>>
    ELSE <<240 + (cp \div 262144), 128 + ((cp \div 4096) % 64),
           128 + ((cp \div 64) % 64), 128 + (cp % 64)>>

RECURSIVE Utf8EncodeScalars(_)
Utf8EncodeScalars(cps) ==
    IF cps = <<>> THEN <<>>
    ELSE Utf8EncodeScalar(Head(cps)) \o Utf8EncodeScalars(Tail(cps))

\* new TextEncoder().encode(s)
TextEncode(s) == Utf8EncodeScalars(ToScalars(s))

\* The UTF-8 decoder of the Encoding standard, error mode "replacement".
\* st = [cp, needed, lower, upper]; an invalid continuation byte emits
\* U+FFFD and is processed again from the initial state.
Utf8Start == [cp |-> 0, needed |-> 0, lower |-> 128, upper |-> 191]

RECURSIVE Utf8DecodeFrom(_, _)
Utf8DecodeFrom(bytes, st) ==
    IF bytes = <<>>
    THEN IF st.needed # 0 THEN <<REPLACEMENT>> ELSE <<>>
    ELSE LET b == Head(bytes) IN
      IF st.needed = 0
      THEN IF b <= 127 THEN <<b>> \o Utf8DecodeFrom(Tail(bytes), Utf8Start)
           ELSE IF b >= 194 /\ b <= 223
                THEN Utf8DecodeFrom(Tail(bytes),
                        [cp |-> b % 32, needed |-> 1, lower |-> 128, upper |-> 191])
           ELSE IF b >= 224 /\ b <= 239
                THEN Utf8DecodeFrom(Tail(bytes),
                        [cp |-> b % 16, needed |-> 2,
                         lower |-> IF b = 224 THEN 160 ELSE 128,
                         upper |-> IF b = 237 THEN 159 ELSE 191])
           ELSE IF b >= 240 /\ b <= 244
                THEN Utf8DecodeFrom(Tail(bytes),
                        [cp |-> b % 8, needed |-> 3,
                         lower |-> IF b = 240 THEN 144 ELSE 128,
                         upper |-> IF b = 244 THEN 143 ELSE 191])
           ELSE <<REPLACEMENT>> \o Utf8DecodeFrom(Tail(bytes), Utf8Start)
      ELSE IF b < st.lower \/ b > st.upper
           THEN <<REPLACEMENT>> \o Utf8DecodeFrom(bytes, Utf8Start)
           ELSE IF st.needed = 1
                THEN <<st.cp * 64 + (b % 64)>> \o Utf8DecodeFrom(Tail(bytes), Utf8Start)
                ELSE Utf8DecodeFrom(Tail(bytes),
                        [cp |-> st.cp * 64 + (b % 64), needed |-> st.needed - 1,
                         lower |-> 128, upper |-> 191])

\* TRUE iff the decoder meets an error (what a fatal decoder throws on)
RECURSIVE Utf8HasError(_, _)
Utf8HasError(bytes, st) ==
    IF bytes = <<>> THEN st.needed # 0
    ELSE LET b == Head(bytes) IN
      IF st.needed = 0
      THEN IF b <= 127 THEN Utf8HasError(Tail(bytes), Utf8Start)
           ELSE IF b >= 194 /\ b <= 223
                THEN Utf8HasError(Tail(bytes),
                        [cp |-> 0, needed |-> 1, lower |-> 128, upper |-> 191])
           ELSE IF b >= 224 /\ b <= 239
                THEN Utf8HasError(Tail(bytes),
                        [cp |-> 0, needed |-> 2,
                         lower |-> IF b = 224 THEN 160 ELSE 128,
                         upper |-> IF b = 237 THEN 159 ELSE 191])
           ELSE IF b >= 240 /\ b <= 244
                THEN Utf8HasError(Tail(bytes),
                        [cp |-> 0, needed |-> 3,
                         lower |-> IF b = 240 THEN 144 ELSE 128,
                         upper |-> IF b = 244 THEN 143 ELSE 191])
           ELSE TRUE
      ELSE IF b < st.lower \/ b > st.upper THEN TRUE
           ELSE Utf8HasError(Tail(bytes),
                   [cp |-> 0, needed |-> st.needed - 1, lower |-> 128, upper |-> 191])

\* new TextDecoder('utf-8').decode(bytes): not fatal, ignoreBOM false, so
\* errors become U+FFFD and a leading U+FEFF is removed from the output
TextDecode(bytes) ==
    LET cps == Utf8DecodeFrom(bytes, Utf8Start)
    IN  FromScalars(IF cps # <<>> /\ Head(cps) = BOM THEN Tail(cps) ELSE cps)

(***************************************************************************)
(* Typed arrays and ImageData                                              *)
(* heap maps a buffer reference to the samples of a Uint8ClampedArray; an  *)
(* ImageData is [width, height, data] with data a buffer reference.        *)
(***************************************************************************)
None == [none |-> TRUE]

\* a state value that is a number rather than null
Some(n) == [none |-> FALSE, value |-> n]

\* variant: the array is used without being copied (const data = imageData.data)
NewUint8ClampedArray_alias(h, src) == [heap |-> h, ref |-> src]

\* new Uint8ClampedArray(source): a fresh array holding a copy of source
NewUint8ClampedArray(h, src) ==
    LET ref == Cardinality(DOMAIN h) + 1
    IN  [heap |-> [r \in (DOMAIN h) \cup {ref} |-> IF r = ref THEN h[src] ELSE h[r]],
         ref  |-> ref]

\* new ImageData(data, width, height): wraps the array it is given
NewImageData(ref, width, height) ==
    [width |-> width, height |-> height, data |-> ref]

\* variant: the length is stored little-endian
SetUint32_littleEndian(n) ==
    <<n % 256, (n \div 256) % 256, (n \div 65536) % 256, (n \div 16777216) % 256>>

\* DataView.setUint32(0, n, false) on a 4-byte array
SetUint32(n) ==
    <<(n \div 16777216) % 256, (n \div 65536) % 256, (n \div 256) % 256, n % 256>>

\* DataView.getUint32(0, false)
GetUint32(b) == b[1] * 16777216 + b[2] * 65536 + b[3] * 256 + b[4]

\* Array.prototype.slice(start, end) with 0-based, end-exclusive indices
Slice(a, start, end) == SubSeq(a, start + 1, Min(end, Len(a)))

Thrown(msg) == [threw |-> TRUE, error |-> msg]

(***************************************************************************)
(* The codec with header (MAGIC + length + message + delimiter)            *)
(***************************************************************************)
\* variant: a negative remainder made positive with Math.abs
calculateCapacity_abs(width, height) ==
    LET r == width * height * 3 - (Len(MAGIC_HEADER) + 4) * 8 - Len(DELIMITER) * 8
    IN  (IF r < 0 THEN -r ELSE r) \div 8

\* variant: the header is not counted, as in the headerless codec
calculateCapacity_noHeader(width, height) ==
    (width * height * 3 - Len(DELIMITER) * 8) \div 8

calculateCapacity(width, height) ==
    LET totalBits     == width * height * 3
        headerBits    == (Len(MAGIC_HEADER) + 4) * 8
        delimiterBits == Len(DELIMITER) * 8
    IN  (totalBits - headerBits - delimiterBits) \div 8

\* variant: the delimiter is not appended to the message
TotalBytes_noDelimiter(secretText) ==
    LET messageBytes == TextEncode(secretText)
        headerBytes  == TextEncode(MAGIC_HEADER)
        lengthBytes  == SetUint32(Len(messageBytes))
    IN  headerBytes \o lengthBytes \o messageBytes

\* the bytes encodeText puts into the image: magic, length, message
TotalBytes(secretText) ==
    LET messageBytes == TextEncode(secretText \o DELIMITER)
        headerBytes  == TextEncode(MAGIC_HEADER)
        lengthBytes  == SetUint32(Len(messageBytes))
    IN  headerBytes \o lengthBytes \o messageBytes

\* variant: the first channel of each pixel is skipped instead of the fourth
IsAlpha_first(i) == i % 4 = 0

\* the alpha channel test of the loops: (i + 1) % 4 === 0
IsAlpha(i) == (i + 1) % 4 = 0

IsDataIndex(i) == ~IsAlpha(i)

\* the buffer indices the loops do not skip, in the order they are visited
DataIndices(data) == SelectSeq([j \in 1..Len(data) |-> j - 1], IsDataIndex)

\* variant: binaryIndex is incremented for the skipped samples too
BinaryIndexAt_countsAlpha(i) == i

\* value of binaryIndex when the encode loop reaches buffer index i: it is
\* incremented once for every sample before i that was not skipped
BinaryIndexAt(i) == i - (i \div 4)

\* variant: the loop does not stop when the bits run out, and the missing
\* bit (NaN) clears the LSB of every later sample
WriteLoop_noStop(data, binaryText) ==
    [j \in 1..Len(data) |->
        IF IsAlpha(j - 1) THEN data[j]
        ELSE IF ~(BinaryIndexAt(j - 1) < Len(binaryText)) THEN data[j] - (data[j] % 2)
        ELSE (data[j] - (data[j] % 2)) + binaryText[BinaryIndexAt(j - 1) + 1]]

\* variant: the LSB is not cleared before the bit is set (data[i] | bit)
WriteLoop_orOnly(data, binaryText) ==
    [j \in 1..Len(data) |->
        IF IsAlpha(j - 1) \/ ~(BinaryIndexAt(j - 1) < Len(binaryText)) THEN data[j]
        ELSE IF data[j] % 2 = 1 THEN data[j]
        ELSE data[j] + binaryText[BinaryIndexAt(j - 1) + 1]]

\* for (i = 0; i < data.length && binaryIndex < binaryText.length; i++):
\* skip the alpha channel, otherwise data[i] = (data[i] & 0xFE) | bit
WriteLoop(data, binaryText) ==
    [j \in 1..Len(data) |->
        IF IsAlpha(j - 1) \/ ~(BinaryIndexAt(j - 1) < Len(binaryText)) THEN data[j]
        ELSE (data[j] - (data[j] % 2)) + binaryText[BinaryIndexAt(j - 1) + 1]]

\* variant: all four channels are counted as usable
MaxBits_rgba(imageData) == imageData.width * imageData.height * 4

\* const maxBits = imageData.width * imageData.height * 3
MaxBits(imageData) == imageData.width * imageData.height * 3

encodeText(h, imageData, secretText) ==
    LET binaryText == BytesToBinary(TotalBytes(secretText))
        maxBits    == MaxBits(imageData)
    IN  IF Len(binaryText) > maxBits
        THEN [threw |-> TRUE, error |-> ERR_TOO_LONG, heap |-> h,
              maxChars |-> (maxBits \div 8) - Len(MAGIC_HEADER) - 4 - Len(DELIMITER)]
        ELSE LET a == NewUint8ClampedArray(h, imageData.data)
                 written == WriteLoop(a.heap[a.ref], binaryText)
             IN  [threw |-> FALSE,
                  heap  |-> [a.heap EXCEPT ![a.ref] = written],
                  value |-> NewImageData(a.ref, imageData.width, imageData.height)]

\* for (i = 0; i < data.length && binaryText.length < limit; i++):
\* skip the alpha channel, otherwise binaryText += (data[i] & 1)
ReadLoop(data, limit) ==
    LET idx == DataIndices(data)
    IN  [k \in 1..Min(limit, Len(idx)) |-> data[idx[k] + 1] % 2]

\* variant: only printable ASCII is accepted
LegacyChar_asciiOnly(charCode) ==
    IF charCode >= 32 /\ charCode <= 126 THEN <<charCode>> ELSE <<>>

\* the character the legacy scan appends for a completed byte
LegacyChar(charCode) ==
    IF charCode >= 32 /\ charCode <= 126 THEN <<charCode>>
    ELSE IF charCode > 0
         THEN IF Utf8HasError(<<charCode>>, Utf8Start)
              THEN <<charCode>>
              ELSE FromScalars(Utf8DecodeFrom(<<charCode>>, Utf8Start))
    ELSE <<>>

\* the scan loop of decodeLegacyFormat, one step per completed byte:
\* bytes are the 8-bit groups of the bits read so far and to come, n the
\* number of groups already handled, text the characters accumulated
RECURSIVE LegacyLoop(_, _, _)
LegacyLoop(bytes, n, text) ==
    IF ~(n < Len(bytes)) THEN Thrown(ERR_NO_MESSAGE)
    ELSE LET charCode == ParseInt2(bytes[n + 1])
             t == text \o LegacyChar(charCode)
         IN  IF EndsWith(t, DELIMITER)
             THEN [threw |-> FALSE, value |-> DropLast(t, Len(DELIMITER))]
             ELSE IF Len(t) > LegacyTextLimit THEN Thrown(ERR_NO_MESSAGE)
             ELSE LegacyLoop(bytes, n + 1, t)

\* variant: the text accumulated so far is returned when the buffer is exhausted
decodeLegacyFormat_returnsText(data) ==
    LET binaryText == ReadLoop(data, Len(data))
        complete   == SubSeq(binaryText, 1, 8 * (Len(binaryText) \div 8))
        r          == LegacyLoop(Match8(complete), 0, <<>>)
    IN  IF r.threw THEN [threw |-> FALSE, value |-> <<>>] ELSE r

\* variant: the scan stops one byte before the end of the buffer
decodeLegacyFormat_missesLast(data) ==
    LET binaryText == ReadLoop(data, Len(data))
        complete   == SubSeq(binaryText, 1, 8 * (Len(binaryText) \div 8) - 8)
    IN  LegacyLoop(Match8(complete), 0, <<>>)

\* the loop reads every non-alpha LSB and acts when binaryText.length % 8 = 0
decodeLegacyFormat(data) ==
    LET binaryText == ReadLoop(data, Len(data))
        complete   == SubSeq(binaryText, 1, 8 * (Len(binaryText) \div 8))
    IN  LegacyLoop(Match8(complete), 0, <<>>)

\* variant: the alpha samples are counted as carrying bits
MaxPossibleLength_allChannels(data) == Len(data) \div 8

\* const maxPossibleLength = Math.floor((data.length * 3) / (4 * 8))
MaxPossibleLength(data) == (Len(data) * 3) \div (4 * 8)

\* path records the branch that produced the outcome
decodeText(data) ==
    LET headerSize  == Len(MAGIC_HEADER) + 4
        headerBits  == headerSize * 8
        headerBytes == Match8(ReadLoop(data, headerBits))
    IN  IF headerBytes = <<>> \/ Len(headerBytes) < headerSize
        THEN [path |-> "header"] @@ Thrown(ERR_NO_MESSAGE)
        ELSE
        LET extractedBytes == [j \in 1..headerSize |-> ParseInt2(headerBytes[j])]
            magic == TextDecode(Slice(extractedBytes, 0, Len(MAGIC_HEADER)))
        IN  IF magic # MAGIC_HEADER
            THEN [path |-> "legacy"] @@ decodeLegacyFormat(data)
            ELSE
            LET messageLength ==
                    GetUint32(Slice(extractedBytes, Len(MAGIC_HEADER), Len(MAGIC_HEADER) + 4))
                maxPossibleLength == MaxPossibleLength(data)
            IN  IF messageLength > maxPossibleLength \/ messageLength > MaxMessageLength
                THEN [path |-> "current"] @@ Thrown(ERR_INVALID_LENGTH)
                ELSE
                LET totalBitsNeeded == (headerSize + messageLength) * 8
                    allBytes == Match8(ReadLoop(data, totalBitsNeeded))
                IN  IF allBytes = <<>>
                    THEN [path |-> "current"] @@ Thrown(ERR_EXTRACT)
                    ELSE
                    LET messageByteStrings ==
                            Slice(allBytes, headerSize, headerSize + messageLength)
                        messageBytes ==
                            [j \in 1..Len(messageByteStrings) |->
                                ParseInt2(messageByteStrings[j])]
                        message == TextDecode(messageBytes)
                    IN  [path |-> "current", threw |-> FALSE,
                         value |-> IF EndsWith(message, DELIMITER)
                                   THEN DropLast(message, Len(DELIMITER))
                                   ELSE message]

(***************************************************************************)
(* The headerless codec (src/lib/steganography.ts)                         *)
(***************************************************************************)
\* text.split('').map(c => c.charCodeAt(0).toString(2).padStart(8, '0')).join('')
RECURSIVE lib_textToBinary(_)
lib_textToBinary(text) ==
    IF text = <<>> THEN <<>>
    ELSE PadStart8(ToString2(Head(text))) \o lib_textToBinary(Tail(text))

lib_calculateCapacity(width, height) ==
    LET totalBits     == width * height * 3
        delimiterBits == Len(DELIMITER) * 8
    IN  (totalBits - delimiterBits) \div 8

lib_encodeText(h, imageData, secretText) ==
    LET textWithDelimiter == secretText \o DELIMITER
        binaryText  == lib_textToBinary(textWithDelimiter)
        maxCapacity == lib_calculateCapacity(imageData.width, imageData.height)
    IN  IF Len(textWithDelimiter) > maxCapacity
        THEN [threw |-> TRUE, error |-> ERR_TOO_LONG, heap |-> h,
              maxChars |-> maxCapacity]
        ELSE LET a == NewUint8ClampedArray(h, imageData.data)
                 written == WriteLoop(a.heap[a.ref], binaryText)
             IN  [threw |-> FALSE,
                  heap  |-> [a.heap EXCEPT ![a.ref] = written],
                  value |-> NewImageData(a.ref, imageData.width, imageData.height)]

(***************************************************************************)
(* The video library (videoSteganography.ts); it imports encodeText and    *)
(* calculateCapacity of the codec with header                              *)
(***************************************************************************)
ERR_NO_FRAMES == "No frames to encode"

\* if (frames.length === 0) return 0; otherwise the capacity of frame 0
calculateVideoCapacity(frames) ==
    IF Len(frames) = 0 THEN 0
    ELSE calculateCapacity(frames[1].imageData.width, frames[1].imageData.height)

\* variant: the encoded image is put into every frame
encodeTextInFrames_everyFrame(h, frames, secretText) ==
    IF Len(frames) = 0 THEN [threw |-> TRUE, error |-> ERR_NO_FRAMES, heap |-> h]
    ELSE IF Len(secretText) > calculateVideoCapacity(frames)
    THEN [threw |-> TRUE, error |-> ERR_TOO_LONG, heap |-> h]
    ELSE LET r == encodeText(h, frames[1].imageData, secretText)
         IN  IF r.threw THEN [threw |-> TRUE, error |-> r.error, heap |-> r.heap]
             ELSE [threw |-> FALSE,
                   heap  |-> r.heap,
                   value |-> [index \in 1..Len(frames) |->
                                [frames[index] EXCEPT !.imageData = r.value]]]

\* frames.map((frame, index) => index === 0
\*     ? { ...frame, imageData: encodeText(frame.imageData, secretText) } : frame)
\* after the checks for an empty list and for secretText.length > capacity;
\* an error thrown by encodeText leaves the map and the function
encodeTextInFrames(h, frames, secretText) ==
    IF Len(frames) = 0 THEN [threw |-> TRUE, error |-> ERR_NO_FRAMES, heap |-> h]
    ELSE IF Len(secretText) > calculateVideoCapacity(frames)
    THEN [threw |-> TRUE, error |-> ERR_TOO_LONG, heap |-> h]
    ELSE LET r == encodeText(h, frames[1].imageData, secretText)
         IN  IF r.threw THEN [threw |-> TRUE, error |-> r.error, heap |-> r.heap]
             ELSE [threw |-> FALSE,
                   heap  |-> r.heap,
                   value |-> [index \in 1..Len(frames) |->
                                IF index = 1
                                THEN [frames[index] EXCEPT !.imageData = r.value]
                                ELSE frames[index]]]

ERR_NO_FRAMES_TO_DECODE == "No frames to decode"
ERR_NO_MESSAGE_IN_VIDEO == "No hidden message found in this video"

\* variant: the error of decodeText is passed on
decodeTextFromFrames_rethrows(h, frames) ==
    IF Len(frames) = 0 THEN Thrown(ERR_NO_FRAMES_TO_DECODE)
    ELSE LET r == decodeText(h[frames[1].imageData.data])
         IN  IF r.threw THEN Thrown(r.error)
             ELSE [threw |-> FALSE, value |-> r.value]

\* try { return decodeText(frames[0].imageData) } catch { throw new Error(...) }
\* after the check for an empty list
decodeTextFromFrames(h, frames) ==
    IF Len(frames) = 0 THEN Thrown(ERR_NO_FRAMES_TO_DECODE)
    ELSE LET r == decodeText(h[frames[1].imageData.data])
         IN  IF r.threw THEN Thrown(ERR_NO_MESSAGE_IN_VIDEO)
             ELSE [threw |-> FALSE, value |-> r.value]

(***************************************************************************)
(* Inputs of the model                                                     *)
(***************************************************************************)
MaxWidth == 10
MaxHeight == 10
\* longest text made of one repeated character
MaxRepeat == 21

\* sample values of the input rasters, by 0-based buffer index
Sample(fill, i) ==
    CASE fill = "zero"  -> 0
      [] fill = "white" -> 255
      [] fill = "even"  -> IF (i + 1) % 4 = 0 THEN 255 ELSE (i * 38) % 256
      [] fill = "mixed" -> (i * 37 + 11) % 256

Fills == {"zero", "white", "even", "mixed"}

Raster(fill, width, height) == [j \in 1..(width * height * 4) |-> Sample(fill, j - 1)]

Repeat(c, n) == [j \in 1..n |-> c]

\* 'hello', U+FEFF 'h', 'e-acute', 'euro sign', U+1F600 as a surrogate pair,
\* a lone high surrogate, U+0000 'a', 'STEGO1', 'STEGO1' U+0000 x4,
\* 'a$$END$$b', '$$END$$', '$$END$', 'hi' e-acute, 'hi$$END$$'
SpecialTexts ==
    { <<104, 101, 108, 108, 111>>, <<65279, 104>>, <<233>>, <<8364>>,
      <<55357, 56832>>, <<55357>>, <<0, 97>>, <<83, 84, 69, 71, 79, 49>>,
      <<83, 84, 69, 71, 79, 49, 0, 0, 0, 0>>,
      <<97, 36, 36, 69, 78, 68, 36, 36, 98>>, <<36, 36, 69, 78, 68, 36, 36>>,
      <<36, 36, 69, 78, 68, 36>>, <<104, 105, 233>>,
      <<104, 105, 36, 36, 69, 78, 68, 36, 36>> }

\* 'a', '~'
RepeatChars == {97, 126}
RepeatLengths == {0, 1} \cup (20..MaxRepeat)

Texts == SpecialTexts \cup { Repeat(c, n) : c \in RepeatChars, n \in RepeatLengths }

\* Rasters that come from elsewhere with a byte stream in their non-alpha
\* LSBs: the stream is cut where the raster ends and followed by zero bits.
StreamRaster(stream, width, height) ==
    LET bits == BytesToBinary(stream)
    IN  [j \in 1..(width * height * 4) |->
            IF j % 4 = 0 THEN 255
            ELSE LET k == 3 * ((j - 1) \div 4) + ((j - 1) % 4)
                 IN  ((j * 38) % 256) + (IF k < Len(bits) THEN bits[k + 1] ELSE 0)]

\* a stream in the format with header: 'STEGO1', the length L on 4 bytes,
\* then the payload
Framed(L, payload) ==
    <<83, 84, 69, 71, 79, 49>>
        \o <<(L \div 16777216) % 256, (L \div 65536) % 256, (L \div 256) % 256, L % 256>>
        \o payload

\* declared lengths of the framed streams whose payload is 'a' repeated
FramedLengths == {0, 1, 3, 9, 10, 11, 12, 13, 27, 28, 37, 38, 16777216}

\* framed: an invalid byte, a truncated 2-byte sequence, the euro sign,
\* 'hi$$END$$', 'hi', '$$END$$', '$$END$$$$END$$', 'a$$END$$b';
\* headerless: '$$END$$', 'hi$$END$$', 'hi!$$END$$', 'hi', '$$E' U+0000 'ND$$'
SpecialStreams ==
    { Framed(1, <<255>>), Framed(2, <<195, 40>>), Framed(3, <<226, 130, 172>>),
      Framed(9, <<104, 105, 36, 36, 69, 78, 68, 36, 36>>), Framed(2, <<104, 105>>),
      Framed(7, <<36, 36, 69, 78, 68, 36, 36>>),
      Framed(14, <<36, 36, 69, 78, 68, 36, 36, 36, 36, 69, 78, 68, 36, 36>>),
      Framed(9, <<97, 36, 36, 69, 78, 68, 36, 36, 98>>),
      <<36, 36, 69, 0, 78, 68, 36, 36>>,
      <<36, 36, 69, 78, 68, 36, 36>>,
      <<104, 105, 36, 36, 69, 78, 68, 36, 36>>,
      <<104, 105, 33, 36, 36, 69, 78, 68, 36, 36>>,
      <<104, 105>> }

Streams == SpecialStreams \cup { Framed(L, Repeat(97, Min(L, 64))) : L \in FramedLengths }

(***************************************************************************)
(* State                                                                   *)
(***************************************************************************)
VARIABLES
    heap,        \* buffer reference -> samples
    imageData,   \* the loaded image
    secretText,  \* the text to hide
    pc,          \* "loaded", "ready", "encoded", "decoded"
    capacity,    \* calculateCapacity of the loaded image, None before
    encoder,     \* "none", "encodeText" (with header), "lib_encodeText"
    encoded,     \* outcome of the encoder, None before
    decodedFrom, \* "none", "input", "output"
    decoded,     \* outcome of decodeText, None before
    frames,        \* the frames extracted from the loaded video
    encodedFrames, \* outcome of encodeTextInFrames, None before
    scan,          \* the legacy scan in progress, None when there is none
    panel,         \* state of EncodePanel and its pending completions, None when not shown
    videoPanel     \* state of VideoDecodePanel and its pending completions, None when not shown

vars == <<heap, imageData, secretText, pc, capacity, encoder, encoded,
          decodedFrom, decoded, frames, encodedFrames, scan, panel, videoPanel>>

\* the variables of the codec and of the video library
codecVars == <<heap, imageData, secretText, pc, capacity, encoder, encoded,
               decodedFrom, decoded, frames, encodedFrames>>

\* the rasters a loaded image can hold, and the texts typed with them
Inputs(width, height) ==
    { [data |-> Raster(fill, width, height), text |-> text] : fill \in Fills, text \in Texts }
        \cup { [data |-> StreamRaster(stream, width, height), text |-> <<>>] :
                 stream \in Streams }

Init ==
    \E width \in 0..MaxWidth, height \in 0..MaxHeight :
      \E input \in Inputs(width, height) :
        /\ heap = (1 :> input.data)
        /\ imageData = NewImageData(1, width, height)
        /\ secretText = input.text
        /\ pc = "loaded"
        /\ capacity = None
        /\ encoder = "none"
        /\ encoded = None
        /\ decodedFrom = "none"
        /\ decoded = None
        /\ frames = <<>>
        /\ encodedFrames = None
        /\ scan = None
        /\ panel = None
        /\ videoPanel = None

\* setCapacity(calculateCapacity(width, height)) once the image is loaded
CalculateCapacity ==
    /\ pc = "loaded"
    /\ capacity' = Some(calculateCapacity(imageData.width, imageData.height))
    /\ pc' = "ready"
    /\ UNCHANGED <<heap, imageData, secretText, encoder, encoded, decodedFrom, decoded,
                   frames, encodedFrames, scan, panel, videoPanel>>

EncodeWith(name, r) ==
    /\ pc = "ready"
    /\ heap' = r.heap
    /\ encoder' = name
    /\ encoded' = IF r.threw THEN [threw |-> TRUE, error |-> r.error, maxChars |-> r.maxChars]
                  ELSE [threw |-> FALSE, value |-> r.value]
    /\ pc' = "encoded"
    /\ UNCHANGED <<imageData, secretText, capacity, decodedFrom, decoded, frames, encodedFrames,
                   scan, panel, videoPanel>>

\* encodeText(imageData, secretText) of the codec with header
EncodeText == EncodeWith("encodeText", encodeText(heap, imageData, secretText))

\* encodeText(imageData, secretText) of the headerless codec
LibEncodeText == EncodeWith("lib_encodeText", lib_encodeText(heap, imageData, secretText))

\* decodeText on the image as loaded
DecodeInput ==
    /\ pc = "ready"
    /\ decoded' = decodeText(heap[imageData.data])
    /\ decodedFrom' = "input"
    /\ pc' = "decoded"
    /\ UNCHANGED <<heap, imageData, secretText, capacity, encoder, encoded, frames, encodedFrames,
                   scan, panel, videoPanel>>

\* decodeText on the image an encoder returned
DecodeOutput ==
    /\ pc = "encoded"
    /\ ~encoded.threw
    /\ decoded' = decodeText(heap[encoded.value.data])
    /\ decodedFrom' = "output"
    /\ pc' = "decoded"
    /\ UNCHANGED <<heap, imageData, secretText, capacity, encoder, encoded, frames, encodedFrames,
                   scan, panel, videoPanel>>

Next ==
    \/ CalculateCapacity
    \/ EncodeText
    \/ LibEncodeText
    \/ DecodeInput
    \/ DecodeOutput

Spec == Init /\ [][Next]_vars

(***************************************************************************)
(* The video encoder: frames extracted from a video, a text hidden in them *)
(***************************************************************************)
\* most frames extracted from a video
MaxFrames == 3

\* the raster of the k-th extracted frame
FrameFill(k) ==
    CASE k % 4 = 1 -> "mixed"
      [] k % 4 = 2 -> "white"
      [] k % 4 = 3 -> "even"
      [] OTHER     -> "zero"

\* extractFrames: every frame is a fresh getImageData of the same canvas
\* size, stamped with its time
InitVideo ==
    \E width \in 0..MaxWidth, height \in 0..MaxHeight, count \in 0..MaxFrames :
      \E text \in Texts :
        /\ heap = [k \in 1..count |-> Raster(FrameFill(k), width, height)]
        /\ frames = [k \in 1..count |->
                        [imageData |-> NewImageData(k, width, height), timestamp |-> k - 1]]
        /\ secretText = text
        /\ pc = "loaded"
        /\ capacity = None
        /\ encodedFrames = None
        /\ imageData = None
        /\ encoder = "none"
        /\ encoded = None
        /\ decodedFrom = "none"
        /\ decoded = None
        /\ scan = None
        /\ panel = None
        /\ videoPanel = None

\* setCapacity(calculateVideoCapacity(frames)) once the frames are extracted
CalculateVideoCapacity ==
    /\ pc = "loaded"
    /\ capacity' = Some(calculateVideoCapacity(frames))
    /\ pc' = "ready"
    /\ UNCHANGED <<heap, imageData, secretText, encoder, encoded, decodedFrom, decoded,
                   frames, encodedFrames, scan, panel, videoPanel>>

\* encodeTextInFrames(frames, secretText)
EncodeTextInFrames ==
    /\ pc = "ready"
    /\ LET r == encodeTextInFrames(heap, frames, secretText)
       IN  /\ heap' = r.heap
           /\ encodedFrames' = IF r.threw THEN Thrown(r.error)
                                ELSE [threw |-> FALSE, value |-> r.value]
    /\ pc' = "encoded"
    /\ UNCHANGED <<imageData, secretText, capacity, encoder, encoded, decodedFrom, decoded,
                   frames, scan, panel, videoPanel>>

NextVideo ==
    \/ CalculateVideoCapacity
    \/ EncodeTextInFrames

VideoSpec == InitVideo /\ [][NextVideo]_vars

(***************************************************************************)
(* The video decoder: frames extracted from a video that may carry a text  *)
(***************************************************************************)
\* 'hi$$END$$' in the format with header
FrameMessage == Framed(9, <<104, 105, 36, 36, 69, 78, 68, 36, 36>>)

\* extractFrames of a video whose first frame carries the stream first and
\* whose later frames carry the message 'hi'
InitVideoDecode ==
    \E width \in 0..MaxWidth, height \in 0..MaxHeight, count \in 0..MaxFrames :
      \E first \in Streams :
        /\ heap = [k \in 1..count |->
                      StreamRaster(IF k = 1 THEN first ELSE FrameMessage, width, height)]
        /\ frames = [k \in 1..count |->
                        [imageData |-> NewImageData(k, width, height), timestamp |-> k - 1]]
        /\ secretText = <<>>
        /\ pc = "extracted"
        /\ capacity = None
        /\ encodedFrames = None
        /\ imageData = None
        /\ encoder = "none"
        /\ encoded = None
        /\ decodedFrom = "none"
        /\ decoded = None
        /\ scan = None
        /\ panel = None
        /\ videoPanel = None

\* decodeTextFromFrames(frames)
DecodeTextFromFrames ==
    /\ pc = "extracted"
    /\ decoded' = decodeTextFromFrames(heap, frames)
    /\ decodedFrom' = "frames"
    /\ pc' = "decoded"
    /\ UNCHANGED <<heap, imageData, secretText, capacity, encoder, encoded, frames,
                   encodedFrames, scan, panel, videoPanel>>

NextVideoDecode == DecodeTextFromFrames

VideoDecodeSpec == InitVideoDecode /\ [][NextVideoDecode]_vars

(***************************************************************************)
(* The application: either an image is loaded in EncodePanel or the frames *)
(* of a video in VideoEncodePanel                                          *)
(***************************************************************************)
UiInit == Init \/ InitVideo

UiNext ==
    \/ imageData # None /\ Next
    \/ imageData = None /\ NextVideo

UiSpec == UiInit /\ [][UiNext]_vars

(***************************************************************************)
(* EncodePanel: the handlers of the image dropzone and the completions of  *)
(* the FileReader and of loadImage they start                              *)
(***************************************************************************)
\* number of files the user can choose from, and of selections made
MaxFiles == 2
MaxSelects == 3

Files == 1..MaxFiles

\* the size of the image in a file: each file has its own
FileSize(file) == [width |-> MaxWidth, height |-> MaxHeight + file]

\* what calculateCapacity gives for the image in a file
FileCapacity(file) == calculateCapacity(FileSize(file).width, FileSize(file).height)

PanelInit ==
    /\ panel = [selectedFile |-> None, imagePreview |-> None, capacity |-> None,
                pending |-> {}, selects |-> 0]
    /\ heap = <<>>
    /\ imageData = None
    /\ secretText = <<>>
    /\ pc = "panel"
    /\ capacity = None
    /\ encoder = "none"
    /\ encoded = None
    /\ decodedFrom = "none"
    /\ decoded = None
    /\ frames = <<>>
    /\ encodedFrames = None
    /\ scan = None
    /\ videoPanel = None

\* handleImageSelect(file): the dropzone is shown while there is no preview;
\* setSelectedFile(file) and reader.readAsDataURL(file)
HandleImageSelect(file) ==
    /\ panel.imagePreview = None
    /\ panel.selects < MaxSelects
    /\ panel' = [panel EXCEPT
                   !.selectedFile = Some(file),
                   !.selects = @ + 1,
                   !.pending = @ \cup {[id |-> panel.selects + 1, file |-> file,
                                      stage |-> "reading"]}]
    /\ UNCHANGED <<codecVars, scan, videoPanel>>

\* reader.onload: setImagePreview(dataUrl), then await loadImage(file)
ReaderOnload(job) ==
    /\ job \in panel.pending
    /\ job.stage = "reading"
    /\ panel' = [panel EXCEPT
                   !.imagePreview = Some(job.file),
                   !.pending = (@ \ {job}) \cup {[job EXCEPT !.stage = "loading"]}]
    /\ UNCHANGED <<codecVars, scan, videoPanel>>

\* loadImage resolves: setCapacity(calculateCapacity(width, height))
LoadImageResolved(job) ==
    /\ job \in panel.pending
    /\ job.stage = "loading"
    /\ panel' = [panel EXCEPT
                   !.capacity = Some(FileCapacity(job.file)),
                   !.pending = @ \ {job}]
    /\ UNCHANGED <<codecVars, scan, videoPanel>>

\* loadImage rejects: the catch only logs
LoadImageRejected(job) ==
    /\ job \in panel.pending
    /\ job.stage = "loading"
    /\ panel' = [panel EXCEPT !.pending = @ \ {job}]
    /\ UNCHANGED <<codecVars, scan, videoPanel>>

\* handleClearImage: the clear button is shown with the preview
HandleClearImage ==
    /\ panel.imagePreview # None
    /\ panel' = [panel EXCEPT
                   !.selectedFile = None, !.imagePreview = None, !.capacity = None]
    /\ UNCHANGED <<codecVars, scan, videoPanel>>

PanelNext ==
    \/ \E file \in Files : HandleImageSelect(file)
    \/ \E job \in panel.pending : ReaderOnload(job)
    \/ \E job \in panel.pending : LoadImageResolved(job)
    \/ \E job \in panel.pending : LoadImageRejected(job)
    \/ HandleClearImage

PanelSpec == PanelInit /\ [][PanelNext]_vars

(***************************************************************************)
(* VideoDecodePanel: the handlers of its dropzones and mode buttons and    *)
(* the completions of getVideoThumbnail, extractFrames and the FileReader. *)
(* preview and frames are kept as the file they were made from.            *)
(***************************************************************************)
VideoPanelInit ==
    /\ videoPanel = [inputMode |-> "frame", selectedFile |-> None, preview |-> None,
                     frames |-> None, isProcessing |-> FALSE, pending |-> {}, selects |-> 0]
    /\ heap = <<>>
    /\ imageData = None
    /\ secretText = <<>>
    /\ pc = "panel"
    /\ capacity = None
    /\ encoder = "none"
    /\ encoded = None
    /\ decodedFrom = "none"
    /\ decoded = None
    /\ frames = <<>>
    /\ encodedFrames = None
    /\ scan = None
    /\ panel = None

\* handleClear: setSelectedFile(null), setPreview(null), setFrames([])
handleClear(vp) == [vp EXCEPT !.selectedFile = None, !.preview = None, !.frames = None]

\* handleVideoSelect(file) up to its first await: the video dropzone is
\* shown while there is no preview and is disabled while processing
HandleVideoSelect(file) ==
    /\ videoPanel.inputMode = "video"
    /\ videoPanel.preview = None
    /\ ~videoPanel.isProcessing
    /\ videoPanel.selects < MaxSelects
    /\ videoPanel' = [videoPanel EXCEPT
                        !.selectedFile = Some(file),
                        !.isProcessing = TRUE,
                        !.selects = @ + 1,
                        !.pending = @ \cup {[id |-> videoPanel.selects + 1, file |-> file,
                                           stage |-> "thumbnail"]}]
    /\ UNCHANGED <<codecVars, scan, panel>>

\* getVideoThumbnail resolves: setPreview(thumbnail), then await extractFrames
ThumbnailResolved(job) ==
    /\ job \in videoPanel.pending
    /\ job.stage = "thumbnail"
    /\ videoPanel' = [videoPanel EXCEPT
                        !.preview = Some(job.file),
                        !.pending = (@ \ {job}) \cup {[job EXCEPT !.stage = "extracting"]}]
    /\ UNCHANGED <<codecVars, scan, panel>>

\* extractFrames resolves: setFrames(extractedFrames); finally setIsProcessing(false)
ExtractResolved(job) ==
    /\ job \in videoPanel.pending
    /\ job.stage = "extracting"
    /\ videoPanel' = [videoPanel EXCEPT
                        !.frames = Some(job.file),
                        !.isProcessing = FALSE,
                        !.pending = @ \ {job}]
    /\ UNCHANGED <<codecVars, scan, panel>>

\* getVideoThumbnail or extractFrames rejects: the catch does
\* setPreview(null); finally setIsProcessing(false)
VideoJobRejected(job) ==
    /\ job \in videoPanel.pending
    /\ job.stage \in {"thumbnail", "extracting"}
    /\ videoPanel' = [videoPanel EXCEPT
                        !.preview = None,
                        !.isProcessing = FALSE,
                        !.pending = @ \ {job}]
    /\ UNCHANGED <<codecVars, scan, panel>>

\* handleImageSelect(file) of the frame mode: setSelectedFile(file) and
\* reader.readAsDataURL(file); the image dropzone is shown while there is
\* no preview
HandleFrameSelect(file) ==
    /\ videoPanel.inputMode = "frame"
    /\ videoPanel.preview = None
    /\ videoPanel.selects < MaxSelects
    /\ videoPanel' = [videoPanel EXCEPT
                        !.selectedFile = Some(file),
                        !.selects = @ + 1,
                        !.pending = @ \cup {[id |-> videoPanel.selects + 1, file |-> file,
                                           stage |-> "reading"]}]
    /\ UNCHANGED <<codecVars, scan, panel>>

\* reader.onload of the frame mode: setPreview(dataUrl)
FrameReaderOnload(job) ==
    /\ job \in videoPanel.pending
    /\ job.stage = "reading"
    /\ videoPanel' = [videoPanel EXCEPT
                        !.preview = Some(job.file),
                        !.pending = @ \ {job}]
    /\ UNCHANGED <<codecVars, scan, panel>>

\* an input-mode button: setInputMode(mode); handleClear(); never disabled
SetInputMode(mode) ==
    /\ videoPanel' = handleClear([videoPanel EXCEPT !.inputMode = mode])
    /\ UNCHANGED <<codecVars, scan, panel>>

\* the clear button of the dropzone in use: shown with the preview, and
\* disabled in the video dropzone while processing
HandleClear ==
    /\ videoPanel.preview # None
    /\ videoPanel.inputMode = "video" => ~videoPanel.isProcessing
    /\ videoPanel' = handleClear(videoPanel)
    /\ UNCHANGED <<codecVars, scan, panel>>

VideoPanelNext ==
    \/ \E file \in Files : HandleVideoSelect(file)
    \/ \E job \in videoPanel.pending : ThumbnailResolved(job)
    \/ \E job \in videoPanel.pending : ExtractResolved(job)
    \/ \E job \in videoPanel.pending : VideoJobRejected(job)
    \/ \E file \in Files : HandleFrameSelect(file)
    \/ \E job \in videoPanel.pending : FrameReaderOnload(job)
    \/ HandleClear
    \/ \E mode \in {"frame", "video"} : SetInputMode(mode)

VideoPanelSpec == VideoPanelInit /\ [][VideoPanelNext]_vars

(***************************************************************************)
(* The legacy scan of decodeLegacyFormat, one completed byte at a time.    *)
(* The accumulated text is kept as its length and its last 7 characters:   *)
(* text.endsWith(DELIMITER) and text.length > 1000000 read nothing else.   *)
(***************************************************************************)
\* how far below the safety limit the scans start
ScanMargin == 8

\* the end of a text, at most 7 characters
Last7(t) == IF Len(t) <= 7 THEN t ELSE SubSeq(t, Len(t) - 6, Len(t))

\* the bytes of the stream still to come: nothing, 'hi', '$$END$$',
\* 'aa$$END$$', 'aaaa$$END$$', '$$END$', three zero bytes, 0xFF '$$END$$',
\* 'hi$$END$$x'
ScanRests ==
    { <<>>, <<104, 105>>, <<36, 36, 69, 78, 68, 36, 36>>,
      <<97, 97, 36, 36, 69, 78, 68, 36, 36>>,
      <<97, 97, 97, 97, 36, 36, 69, 78, 68, 36, 36>>,
      <<36, 36, 69, 78, 68, 36>>, <<0, 0, 0>>,
      <<255, 36, 36, 69, 78, 68, 36, 36>>,
      <<104, 105, 36, 36, 69, 78, 68, 36, 36, 120>> }

\* number of bytes 'a' the scan has already read
ScanStarts == {0} \cup ((LegacyTextLimit - ScanMargin)..LegacyTextLimit)

\* the scan of a stream 'a' x start followed by rest, after its first
\* start bytes: no delimiter was met and the limit is not exceeded
ScanInit ==
    \E start \in ScanStarts, rest \in ScanRests :
        /\ scan = [pc |-> "loop", length |-> start, tail |-> Repeat(97, Min(start, 7)),
                   rest |-> rest, start |-> start, stream |-> rest]
        /\ heap = <<>>
        /\ imageData = None
        /\ secretText = <<>>
        /\ pc = "decoding"
        /\ capacity = None
        /\ encoder = "none"
        /\ encoded = None
        /\ decodedFrom = "none"
        /\ decoded = None
        /\ frames = <<>>
        /\ encodedFrames = None
        /\ panel = None
        /\ videoPanel = None

\* variant: no safety limit
LegacyStep_noCeiling(sc) ==
    LET charCode == Head(sc.rest)
        tail     == Last7(sc.tail \o LegacyChar(charCode))
        length   == sc.length + Len(LegacyChar(charCode))
    IN  [sc EXCEPT !.rest = Tail(sc.rest), !.tail = tail, !.length = length,
                   !.pc = IF EndsWith(tail, DELIMITER) THEN "returned" ELSE "loop"]

\* the loop body for a completed byte: append its character, return when
\* the text ends with the delimiter, break (and throw) when it is longer
\* than the limit
LegacyStep(sc) ==
    LET charCode == Head(sc.rest)
        tail     == Last7(sc.tail \o LegacyChar(charCode))
        length   == sc.length + Len(LegacyChar(charCode))
    IN  [sc EXCEPT !.rest = Tail(sc.rest), !.tail = tail, !.length = length,
                   !.pc = IF EndsWith(tail, DELIMITER) THEN "returned"
                          ELSE IF length > LegacyTextLimit THEN "thrown"
                          ELSE "loop"]

ScanByte ==
    /\ scan.pc = "loop"
    /\ scan.rest # <<>>
    /\ scan' = LegacyStep(scan)
    /\ UNCHANGED <<codecVars, panel, videoPanel>>

\* the for loop ends with the buffer: throw new Error('No hidden message ...')
ScanExhausted ==
    /\ scan.pc = "loop"
    /\ scan.rest = <<>>
    /\ scan' = [scan EXCEPT !.pc = "thrown"]
    /\ UNCHANGED <<codecVars, panel, videoPanel>>

ScanNext ==
    \/ ScanByte
    \/ ScanExhausted

\* the loop is synchronous code: it runs until it returns or throws
ScanSpec == ScanInit /\ [][ScanNext]_vars /\ WF_vars(ScanNext)

(***************************************************************************)
(* Properties                                                              *)
(***************************************************************************)
Input  == heap[imageData.data]
Output == heap[encoded.value.data]

EncodedBy(name) == pc \in {"encoded", "decoded"} /\ encoder = name
Returned(name)  == EncodedBy(name) /\ ~encoded.threw
DecodedOutputOf(name) == pc = "decoded" /\ decodedFrom = "output" /\ encoder = name

\* the text has no lone surrogate, so it is the UTF-16 form of Unicode text
IsWellFormed(s) == FromScalars(ToScalars(s)) = s

ByteLength(s) == Len(TextEncode(s))

\* C1: round trip: a well-formed text whose UTF-8 byte length is at most
\* the capacity of the raster is accepted by encodeText, and decodeText of
\* the result returns exactly that text.
C1_RoundTrip ==
    (/\ EncodedBy("encodeText")
     /\ IsWellFormed(secretText)
     /\ ByteLength(secretText) <= calculateCapacity(imageData.width, imageData.height))
    => /\ ~encoded.threw
       /\ pc = "decoded" => (~decoded.threw /\ decoded.value = secretText)

\* C2: the capacity is never negative: it is 0 when a dimension is 0 and
\* whenever the raster has fewer usable bits than the framing overhead.
C2_CapacityClamped ==
    capacity # None =>
        /\ capacity.value >= 0
        /\ (imageData.width = 0 \/ imageData.height = 0) => capacity.value = 0
        /\ imageData.width * imageData.height * 3 < 136 => capacity.value = 0

\* C3: the capacity is non-decreasing in each argument: no raster at least
\* as wide and at least as high has a smaller capacity than the loaded one.
C3_CapacityMonotone ==
    capacity # None =>
        \A w2 \in imageData.width..(MaxWidth + 1), h2 \in imageData.height..(MaxHeight + 1) :
            capacity.value <= calculateCapacity(w2, h2)

C3_Witness ==
    /\ capacity # None
    /\ imageData.width = 5 /\ imageData.height = 4
    /\ capacity.value < calculateCapacity(6, 4)
    /\ capacity.value < calculateCapacity(5, 5)

IsAscii(s) == \A j \in 1..Len(s) : s[j] < 128

\* C4: for a 10x10 raster the capacity is 20, encodeText accepts every text
\* of 20 ASCII characters and rejects every text of 21 ASCII characters.
C4_TenByTen ==
    (imageData.width = 10 /\ imageData.height = 10) =>
        /\ capacity # None => capacity.value = 20
        /\ (EncodedBy("encodeText") /\ IsAscii(secretText)) =>
              /\ Len(secretText) = 20 => ~encoded.threw
              /\ Len(secretText) = 21 => (encoded.threw /\ encoded.error = ERR_TOO_LONG)

C4_Witness ==
    /\ imageData.width = 10 /\ imageData.height = 10
    /\ capacity = Some(20)
    /\ EncodedBy("encodeText") /\ IsAscii(secretText)
    /\ Len(secretText) = 21 /\ encoded.threw

\* C5: alpha preservation: when encodeText returns, every output sample at
\* a buffer index i with i mod 4 = 3 equals the input sample at that index.
C5_AlphaPreserved ==
    Returned("encodeText") =>
        /\ Len(Output) = Len(Input)
        /\ \A j \in 1..Len(Output) : (j - 1) % 4 = 3 => Output[j] = Input[j]

C5_Witness ==
    /\ Returned("encodeText")
    /\ Output # Input
    /\ \E j \in 1..Len(Input) : (j - 1) % 4 = 3 /\ Input[j] = 255 /\ Output[j] = 255

\* buffer index of the sample that receives bit number n (counted from 1)
IndexOfBit(n) == 4 * ((n - 1) \div 3) + ((n - 1) % 3)

StreamBits(s) == 8 * Len(TotalBytes(s))

\* C6: when encodeText returns, every sample at an index greater than the
\* index of the sample that received the last bit of the bit stream is the
\* same in the output as in the input.
C6_TailUntouched ==
    Returned("encodeText") =>
        \A j \in 1..Len(Output) :
            (j - 1) > IndexOfBit(StreamBits(secretText)) => Output[j] = Input[j]

C6_Witness ==
    /\ Returned("encodeText")
    /\ Output # Input
    /\ \E j \in 1..Len(Output) :
          /\ (j - 1) > IndexOfBit(StreamBits(secretText))
          /\ (j - 1) % 4 # 3
          /\ Input[j] % 2 = 1

\* C7: over-capacity rejection: a text whose UTF-8 byte length is greater
\* than the capacity makes encodeText fail with 'Text too long'; no buffer
\* is returned or allocated.
C7_OverCapacityRejected ==
    (/\ EncodedBy("encodeText")
     /\ ByteLength(secretText) > calculateCapacity(imageData.width, imageData.height))
    => /\ encoded.threw
       /\ encoded.error = ERR_TOO_LONG
       /\ "value" \notin DOMAIN encoded
       /\ DOMAIN heap = {imageData.data}

C7_Witness ==
    /\ EncodedBy("encodeText")
    /\ calculateCapacity(imageData.width, imageData.height) > 0
    /\ ByteLength(secretText) = calculateCapacity(imageData.width, imageData.height) + 1
    /\ encoded.threw

\* C8: neither encoder mutates its input: a call, successful or failing,
\* leaves the samples, width and height of the input raster unchanged, and
\* a successful call returns another buffer with the same width and height.
C8_InputNotMutated ==
    [][(pc = "ready" /\ pc' = "encoded") =>
          /\ imageData' = imageData
          /\ heap'[imageData.data] = heap[imageData.data]
          /\ ~encoded'.threw =>
                /\ encoded'.value.data # imageData.data
                /\ encoded'.value.width = imageData.width
                /\ encoded'.value.height = imageData.height
                /\ Len(heap'[encoded'.value.data]) = Len(heap[imageData.data])]_vars

C8_Witness ==
    /\ pc = "encoded" /\ ~encoded.threw
    /\ encoded.value.data # imageData.data
    /\ Output # Input

AllDataLsbZero(data) == \A j \in 1..Len(data) : (j - 1) % 4 # 3 => data[j] % 2 = 0

\* C9: decodeText on a raster that was not encoded and whose non-alpha
\* LSBs are all zero fails with 'No hidden message found in this image'
\* for every width and height; it never returns text.
C9_ZeroRasterNoMessage ==
    (pc = "decoded" /\ decodedFrom = "input" /\ AllDataLsbZero(Input)) =>
        /\ decoded.threw
        /\ decoded.error = ERR_NO_MESSAGE
        /\ "value" \notin DOMAIN decoded

C9_Witness ==
    /\ pc = "decoded" /\ decodedFrom = "input" /\ AllDataLsbZero(Input)
    /\ imageData.width * imageData.height * 3 >= 136
    /\ \E j \in 1..Len(Input) : Input[j] = 255
    /\ decoded.path = "legacy" /\ decoded.threw

FirstOccurrence(s, sub) ==
    LET hits == { k \in 1..(Len(s) - Len(sub) + 1) : SubSeq(s, k, k + Len(sub) - 1) = sub }
    IN  IF hits = {} THEN 0 ELSE CHOOSE k \in hits : \A m \in hits : k <= m

StartsWith(s, prefix) == Len(s) >= Len(prefix) /\ SubSeq(s, 1, Len(prefix)) = prefix

\* the texts of the headerless format that the scan can delimit: every
\* character is a single non-zero byte, the first delimiter in text +
\* delimiter is the appended one, and the text does not begin with the magic
LegacyDecodable(s) ==
    /\ \A j \in 1..Len(s) : s[j] >= 1 /\ s[j] <= 255
    /\ FirstOccurrence(s \o DELIMITER, DELIMITER) = Len(s) + 1
    /\ ~StartsWith(s, MAGIC_HEADER)

DecodedData == IF decodedFrom = "input" THEN Input ELSE Output

UsableBits == 3 * imageData.width * imageData.height

\* the LSBs of the samples that carry bits, bit number k at IndexOfBit(k)
LsbStream(data) == [k \in 1..(3 * (Len(data) \div 4)) |-> data[IndexOfBit(k) + 1] % 2]

\* the complete bytes of the stream, most significant bit first
StreamBytes(data) ==
    LET b == LsbStream(data)
    IN  [n \in 1..(Len(b) \div 8) |-> ParseInt2(SubSeq(b, 8 * n - 7, 8 * n))]

\* the stream holds the 10 header bytes and they begin with the magic
HasHeader(bytes) == Len(bytes) >= 10 /\ SubSeq(bytes, 1, 6) = MAGIC_HEADER

\* the big-endian length of a stream that has a header
DeclaredLength(bytes) ==
    bytes[7] * 16777216 + bytes[8] * 65536 + bytes[9] * 256 + bytes[10]

LengthWithinCaps(L) == L <= MaxMessageLength /\ L <= UsableBits \div 8

\* C11: when the magic matches, the length is valid and the L payload bytes
\* are not valid UTF-8, decodeText fails and returns no text.
C11_InvalidUtf8Fails ==
    (/\ pc = "decoded"
     /\ LET bytes == StreamBytes(DecodedData)
        IN  /\ HasHeader(bytes)
            /\ LengthWithinCaps(DeclaredLength(bytes))
            /\ Len(bytes) >= 10 + DeclaredLength(bytes)
            /\ Utf8HasError(SubSeq(bytes, 11, 10 + DeclaredLength(bytes)), Utf8Start))
    => /\ decoded.threw
       /\ "value" \notin DOMAIN decoded

\* C12: when the stream begins with the magic and the declared length L
\* exceeds 10,000,000 or floor(3 * width * height / 8), decodeText fails
\* with 'Invalid message length detected' on the current-format path and
\* returns no text; a length within both caps is not rejected that way.
C12_InvalidLength ==
    (pc = "decoded" /\ HasHeader(StreamBytes(DecodedData))) =>
        IF LengthWithinCaps(DeclaredLength(StreamBytes(DecodedData)))
        THEN ~(decoded.threw /\ decoded.error = ERR_INVALID_LENGTH)
        ELSE /\ decoded.threw
             /\ decoded.error = ERR_INVALID_LENGTH
             /\ decoded.path = "current"
             /\ "value" \notin DOMAIN decoded

C12_Witness ==
    /\ pc = "decoded" /\ HasHeader(StreamBytes(DecodedData))
    /\ DeclaredLength(StreamBytes(DecodedData)) = UsableBits \div 8 + 1
    /\ decoded.threw /\ decoded.error = ERR_INVALID_LENGTH

\* the text without one trailing delimiter
StripDelimiter(t) == IF EndsWith(t, DELIMITER) THEN DropLast(t, Len(DELIMITER)) ELSE t

\* C13: no partial text: a text returned through the current-format path
\* with declared length L is the UTF-8 decoding of L complete payload
\* bytes of the stream, without one trailing delimiter; a header that
\* declares more payload bytes than the raster holds yields no text.
C13_NoPartialText ==
    (pc = "decoded" /\ ~decoded.threw /\ decoded.path = "current") =>
        LET bytes == StreamBytes(DecodedData)
        IN  /\ HasHeader(bytes)
            /\ Len(bytes) >= 10 + DeclaredLength(bytes)
            /\ decoded.value =
                 StripDelimiter(TextDecode(SubSeq(bytes, 11, 10 + DeclaredLength(bytes))))

\* C16: on a raster with fewer than 80 usable bits decodeText fails with
\* 'No hidden message found in this image', whatever the sample values.
C16_ShortRasterNoMessage ==
    (pc = "decoded" /\ UsableBits < 80) =>
        /\ decoded.threw
        /\ decoded.error = ERR_NO_MESSAGE

\* the characters the legacy scan accumulates over a sequence of bytes
RECURSIVE LegacyText(_)
LegacyText(bytes) ==
    IF bytes = <<>> THEN <<>>
    ELSE LegacyChar(Head(bytes)) \o LegacyText(Tail(bytes))

NoMessageFound == pc = "decoded" /\ decoded.threw /\ decoded.error = ERR_NO_MESSAGE

\* C17 as stated: whenever decodeText fails with NoMessageFound, the legacy
\* scan of the raster's whole stream finds no delimiter.
C17_NoMessageMeansNoDelimiter ==
    NoMessageFound =>
        FirstOccurrence(LegacyText(StreamBytes(DecodedData)), DELIMITER) = 0

\* C17 (amended): whenever decodeText fails with NoMessageFound on a raster
\* with at least 80 usable bits, the failure comes from the legacy scan
\* and that scan meets no delimiter in the raster's whole stream before the
\* accumulated text exceeds 1,000,000 characters.
C17_NoMessageAfterScan ==
    (NoMessageFound /\ UsableBits >= 80) =>
        /\ decoded.path = "legacy"
        /\ LET first == FirstOccurrence(LegacyText(StreamBytes(DecodedData)), DELIMITER)
           IN  first = 0 \/ first + Len(DELIMITER) - 1 > LegacyTextLimit + 1

C17_Witness ==
    /\ NoMessageFound /\ UsableBits >= 80
    /\ decoded.path = "legacy"
    /\ Len(StreamBytes(DecodedData)) >= 2
    /\ SubSeq(StreamBytes(DecodedData), 1, 2) = <<104, 105>>

(***************************************************************************)
(* The stream encodeText writes                                            *)
(***************************************************************************)
\* C14: no silent truncation: a call of encodeText that returns has stored
\* every bit of the constructed byte sequence in the output raster, and a
\* call that fails has written no sample and allocated nothing.
C14_NoSilentTruncation ==
    [][(pc = "ready" /\ pc' = "encoded" /\ encoder' = "encodeText") =>
          IF encoded'.threw
          THEN heap' = heap
          ELSE LET bits   == BytesToBinary(TotalBytes(secretText))
                   stored == LsbStream(heap'[encoded'.value.data])
               IN  /\ Len(stored) >= Len(bits)
                   /\ SubSeq(stored, 1, Len(bits)) = bits]_vars

C14_Witness ==
    /\ Returned("encodeText")
    /\ UsableBits - StreamBits(secretText) < 8
    /\ SubSeq(LsbStream(Output), 1, StreamBits(secretText))
          = BytesToBinary(TotalBytes(secretText))
    /\ Output # Input

\* bit number k (from 0) of a byte sequence, most significant bit first
BitOf(bytes, k) ==
    (bytes[(k \div 8) + 1] \div <<128, 64, 32, 16, 8, 4, 2, 1>>[(k % 8) + 1]) % 2

\* C18: bit placement: when encodeText returns, bit k of the byte sequence
\* is the LSB of the output sample at buffer index 4 * floor(k / 3) +
\* (k mod 3), and the read loop of decodeText takes its bits from those
\* positions in that order.
C18_BitPlacement ==
    Returned("encodeText") =>
        LET bytes == TotalBytes(secretText)
            n     == 8 * Len(bytes)
        IN  /\ \A k \in 0..(n - 1) :
                 /\ 4 * (k \div 3) + (k % 3) < Len(Output)
                 /\ Output[4 * (k \div 3) + (k % 3) + 1] % 2 = BitOf(bytes, k)
            /\ ReadLoop(Output, n)
                 = [k \in 1..n |-> Output[4 * ((k - 1) \div 3) + ((k - 1) % 3) + 1] % 2]

C18_Witness ==
    /\ Returned("encodeText")
    /\ Input[5] % 2 = 0 /\ Output[5] % 2 = 1
    /\ Input[4] = Output[4]
    /\ BitOf(TotalBytes(secretText), 3) = 1

\* C19: frame layout: the bytes encodeText writes are 'STEGO1', the length
\* byteLength(UTF-8(text)) + 7 on 4 bytes big-endian, UTF-8(text) and
\* '$$END$$'; no bit after them is written.
C19_FrameLayout ==
    Returned("encodeText") =>
        LET L      == ByteLength(secretText) + 7
            layout == <<83, 84, 69, 71, 79, 49>>
                        \o <<L \div 16777216, (L \div 65536) % 256, (L \div 256) % 256, L % 256>>
                        \o TextEncode(secretText)
                        \o <<36, 36, 69, 78, 68, 36, 36>>
            bytes  == StreamBytes(Output)
        IN  /\ Len(bytes) >= Len(layout)
            /\ SubSeq(bytes, 1, Len(layout)) = layout
            /\ \A k \in (8 * Len(layout) + 1)..Len(LsbStream(Output)) :
                   LsbStream(Output)[k] = LsbStream(Input)[k]

C19_Witness ==
    /\ Returned("encodeText")
    /\ secretText = <<104, 101, 108, 108, 111>>
    /\ SubSeq(StreamBytes(Output), 1, 22)
         = <<83, 84, 69, 71, 79, 49, 0, 0, 0, 12, 104, 101, 108, 108, 111,
             36, 36, 69, 78, 68, 36, 36>>

\* number (from 1) of the stream bit carried by the sample at buffer index
\* i, for i not an alpha sample
BitNumberAt(i) == 3 * (i \div 4) + (i % 4) + 1

\* C20: when encodeText returns, every output sample has the upper seven
\* bits of the input sample (output & 0xFE = input & 0xFE), and the LSB of
\* every sample that was assigned a stream bit is that bit.
C20_OnlyLsbChanges ==
    Returned("encodeText") =>
        LET bits == BytesToBinary(TotalBytes(secretText))
        IN  \A j \in 1..Len(Output) :
               /\ Output[j] \div 2 = Input[j] \div 2
               /\ ((j - 1) % 4 # 3 /\ BitNumberAt(j - 1) <= Len(bits))
                     => Output[j] % 2 = bits[BitNumberAt(j - 1)]

C20_Witness ==
    /\ Returned("encodeText")
    /\ \E j \in 1..Len(Output) :
          /\ Input[j] > 1 /\ Input[j] % 2 = 1
          /\ Output[j] = Input[j] - 1

(***************************************************************************)
(* C15: for every non-empty frame list and accepted text,                  *)
(* encodeTextInFrames returns a list of the same length in which every     *)
(* frame at index >= 1 is the unchanged input frame (the same frame, its   *)
(* buffer as it was) and frame 0 keeps its timestamp and carries           *)
(* encodeText(frames[0].imageData, text): a fresh buffer of the same size  *)
(* holding the samples encodeText writes.                                  *)
(***************************************************************************)
FramesEncoded ==
    /\ pc = "encoded"
    /\ encodedFrames # None
    /\ ~encodedFrames.threw

\* the samples of the k-th extracted frame, as extracted
ExtractedSamples(k) ==
    Raster(FrameFill(k), frames[k].imageData.width, frames[k].imageData.height)

C15_OnlyFirstFrameCarries ==
    FramesEncoded =>
        LET out == encodedFrames.value
            r   == encodeText([k \in 1..Len(frames) |-> ExtractedSamples(k)],
                              frames[1].imageData, secretText)
        IN  /\ Len(frames) >= 1
            /\ Len(out) = Len(frames)
            /\ \A k \in 2..Len(frames) :
                  /\ out[k] = frames[k]
                  /\ heap[out[k].imageData.data] = ExtractedSamples(k)
            /\ out[1].timestamp = frames[1].timestamp
            /\ out[1].imageData.width = frames[1].imageData.width
            /\ out[1].imageData.height = frames[1].imageData.height
            /\ out[1].imageData.data \notin { frames[k].imageData.data : k \in 1..Len(frames) }
            /\ ~r.threw
            /\ heap[out[1].imageData.data] = r.heap[r.value.data]
            /\ ReadLoop(heap[out[1].imageData.data], Len(TotalBytes(secretText)) * 8)
                   = BytesToBinary(TotalBytes(secretText))

\* three frames, a text of 20 characters hidden in the first
C15_Witness ==
    /\ FramesEncoded
    /\ Len(frames) = 3
    /\ Len(secretText) = 20
    /\ heap[encodedFrames.value[1].imageData.data] # heap[frames[1].imageData.data]

(***************************************************************************)
(* C21: delimiter tolerance of the current format: when the magic matches, *)
(* the length L is within the caps and the raster holds the L payload      *)
(* bytes, decodeText returns their decoding unchanged if it does not end   *)
(* with the delimiter (L < 7 and L = 0 included), and without exactly one  *)
(* trailing delimiter if it does.                                          *)
(***************************************************************************)
\* the L payload bytes of a stream that has a header and holds them
Payload(bytes) == SubSeq(bytes, 11, 10 + DeclaredLength(bytes))

HoldsPayload(bytes) ==
    /\ HasHeader(bytes)
    /\ LengthWithinCaps(DeclaredLength(bytes))
    /\ Len(bytes) >= 10 + DeclaredLength(bytes)

\* the last 7 characters of the string are the delimiter
HasTrailingDelimiter(m) ==
    /\ Len(m) >= 7
    /\ \A j \in 1..7 : m[Len(m) - 7 + j] = DELIMITER[j]

C21_DelimiterTolerance ==
    (pc = "decoded" /\ HoldsPayload(StreamBytes(DecodedData))) =>
        LET m == TextDecode(Payload(StreamBytes(DecodedData)))
        IN  /\ ~decoded.threw
            /\ decoded.path = "current"
            /\ IF HasTrailingDelimiter(m)
               THEN decoded.value = SubSeq(m, 1, Len(m) - 7)
               ELSE decoded.value = m

\* a stream from elsewhere whose payload 'a$$END$$b' has the delimiter
\* inside and not at its end
C21_Witness ==
    /\ pc = "decoded" /\ decodedFrom = "input"
    /\ HoldsPayload(StreamBytes(DecodedData))
    /\ Payload(StreamBytes(DecodedData)) = <<97, 36, 36, 69, 78, 68, 36, 36, 98>>
    /\ decoded.value = <<97, 36, 36, 69, 78, 68, 36, 36, 98>>

(***************************************************************************)
(* C22: a text that contains the delimiter '$$END$$' (inside, as a suffix  *)
(* or as the whole text) and fits the capacity is accepted by encodeText,  *)
(* and decodeText of the result returns the text unchanged.                *)
(***************************************************************************)
ContainsDelimiter(s) == FirstOccurrence(s, DELIMITER) # 0

C23_LegacyOneCharPerByte ==
    (pc = "decoded" /\ decoded.path = "legacy" /\ ~decoded.threw) =>
        LET first == FirstOccurrence(StreamBytes(DecodedData), DELIMITER)
        IN  /\ first # 0
            /\ Len(decoded.value) = first - 1

(***************************************************************************)
(* C24: the legacy scan terminates: it ends, it never continues with a     *)
(* text longer than 1,000,000 characters, and it ends with NoMessageFound  *)
(* when the buffer is exhausted without a delimiter and when the text      *)
(* exceeds the limit before a delimiter is complete, even if a delimiter   *)
(* occurs later in the buffer.                                             *)
(***************************************************************************)
\* the stream completes a delimiter before the text exceeds the limit
DelimiterInTime ==
    LET first == FirstOccurrence(LegacyText(scan.stream), DELIMITER)
    IN  first # 0 /\ scan.start + first + Len(DELIMITER) - 1 <= LegacyTextLimit + 1

C24_ScanTerminates ==
    /\ <>(scan.pc # "loop")
    /\ [](scan.pc = "loop" => scan.length <= LegacyTextLimit)
    /\ []((scan.pc # "loop" /\ ~DelimiterInTime) => scan.pc = "thrown")

\* the scan has stopped at the limit with a delimiter still to come
C24_Witness ==
    /\ scan.pc = "thrown"
    /\ scan.length > LegacyTextLimit
    /\ FirstOccurrence(scan.rest, DELIMITER) # 0

(***************************************************************************)
(* C25: encodeText fails with 'Text too long' exactly when                 *)
(* 8 * (6 + 4 + byteLength(UTF-8(text)) + 7) is greater than               *)
(* 3 * width * height, and the maximum character count it then reports is  *)
(* calculateCapacity(width, height).                                       *)
(***************************************************************************)
RequiredBits(text) == 8 * (6 + 4 + ByteLength(text) + 7)

C25_CapacityExceeded ==
    EncodedBy("encodeText") =>
        /\ encoded.threw <=> RequiredBits(secretText) > 3 * imageData.width * imageData.height
        /\ encoded.threw =>
              /\ encoded.error = ERR_TOO_LONG
              /\ encoded.maxChars = calculateCapacity(imageData.width, imageData.height)

\* a text one byte too long for its raster is rejected with a positive count
C25_Witness ==
    /\ EncodedBy("encodeText")
    /\ encoded.threw
    /\ ByteLength(secretText) = calculateCapacity(imageData.width, imageData.height) + 1
    /\ encoded.maxChars > 0

(***************************************************************************)
(* C26: the headerless encodeText accepts every text whose length is at    *)
(* most calculateCapacity(width, height), and every text it accepts is     *)
(* written completely: its 8 * (length + 7) bits fit in the 3 * width *    *)
(* height usable samples and are the first bits of the output.             *)
(***************************************************************************)
C26_LibAcceptsUpToCapacity ==
    EncodedBy("lib_encodeText") =>
        /\ Len(secretText) <= lib_calculateCapacity(imageData.width, imageData.height)
              => ~encoded.threw
        /\ ~encoded.threw =>
              LET binaryText == lib_textToBinary(secretText \o DELIMITER)
              IN  /\ 8 * (Len(secretText) + 7) <= 3 * imageData.width * imageData.height
                  /\ ReadLoop(Output, Len(binaryText)) = binaryText

(***************************************************************************)
(* C27 as stated: whenever the panel enables encoding through its capacity *)
(* check (capacity known, text not blank, secretText.length <= capacity),  *)
(* the encodeText call, or the encodeTextInFrames call on a non-empty      *)
(* frame list, does not fail with 'Text too long'.                         *)
(***************************************************************************)
\* the characters String.prototype.trim removes
WhiteSpace ==
    {9, 10, 11, 12, 13, 32, 160, 5760, 8232, 8233, 8239, 8287, 12288, 65279}
        \cup (8192..8202)

\* !secretText.trim()
IsBlank(text) == \A j \in 1..Len(text) : text[j] \in WhiteSpace

\* the outcome of the encoding call of the panel in use, None before it
EncodeOutcome ==
    IF imageData # None
    THEN (IF EncodedBy("encodeText") THEN encoded ELSE None)
    ELSE (IF pc = "encoded" /\ Len(frames) > 0 THEN encodedFrames ELSE None)

TooLong(outcome) == outcome.threw /\ outcome.error = ERR_TOO_LONG

\* canEncode, with a known capacity
CheckPassed ==
    /\ capacity # None
    /\ ~IsBlank(secretText)
    /\ Len(secretText) <= capacity.value

C27_CheckedTextIsAccepted ==
    (EncodeOutcome # None /\ CheckPassed) => ~TooLong(EncodeOutcome)

\* C27 (amended): whenever the panel enables encoding through its capacity
\* check and the UTF-8 byte length of the text is at most the capacity (as
\* for every ASCII text that passes the check), the encodeText call, or
\* the encodeTextInFrames call on a non-empty frame list, does not fail
\* with 'Text too long'.
C27_CheckedBytesAreAccepted ==
    (/\ EncodeOutcome # None
     /\ CheckPassed
     /\ ByteLength(secretText) <= capacity.value)
    => ~TooLong(EncodeOutcome)

\* a text that fills the capacity exactly is encoded
C27_Witness ==
    /\ EncodeOutcome # None
    /\ CheckPassed
    /\ ByteLength(secretText) = capacity.value
    /\ ~EncodeOutcome.threw

(***************************************************************************)
(* C28: decodeTextFromFrames consults only frames[0]: it fails with 'No    *)
(* frames to decode' on an empty list, returns the text of                 *)
(* decodeText(frames[0].imageData) when that succeeds, and reports every   *)
(* failure of that call, whatever its error and whatever the later frames  *)
(* carry, as 'No hidden message found in this video'.                      *)
(***************************************************************************)
\* decodeText of the k-th extracted frame
FrameDecode(k) == decodeText(heap[frames[k].imageData.data])

C28_OnlyFirstFrameDecoded ==
    (pc = "decoded" /\ decodedFrom = "frames") =>
        IF Len(frames) = 0
        THEN decoded.threw /\ decoded.error = ERR_NO_FRAMES_TO_DECODE
        ELSE IF FrameDecode(1).threw
        THEN /\ decoded.threw
             /\ decoded.error = ERR_NO_MESSAGE_IN_VIDEO
             /\ "value" \notin DOMAIN decoded
        ELSE /\ ~decoded.threw
             /\ decoded.value = FrameDecode(1).value

\* the first frame has an invalid length, the second carries 'hi'
C28_Witness ==
    /\ pc = "decoded" /\ decodedFrom = "frames"
    /\ Len(frames) >= 2
    /\ FrameDecode(1).threw /\ FrameDecode(1).error = ERR_INVALID_LENGTH
    /\ ~FrameDecode(2).threw /\ FrameDecode(2).value = <<104, 105>>
    /\ decoded.threw /\ decoded.error = ERR_NO_MESSAGE_IN_VIDEO

(***************************************************************************)
(* C29: in EncodePanel a capacity that is not null is the capacity of the  *)
(* currently selected file: none is shown while no file is selected, and   *)
(* never that of a file selected earlier.                                  *)
(***************************************************************************)
C29_CapacityOfSelectedFile ==
    (panel # None /\ panel.capacity # None) =>
        /\ panel.selectedFile # None
        /\ panel.capacity.value = FileCapacity(panel.selectedFile.value)

(***************************************************************************)
(* C30: in VideoDecodePanel frames and preview are non-empty only while    *)
(* the file they were made from is the selected file: after handleClear    *)
(* they stay empty until a new file is selected.                           *)
(***************************************************************************)
C30_FramesOfSelectedFile ==
    videoPanel # None =>
        /\ videoPanel.frames # None => videoPanel.selectedFile = videoPanel.frames
        /\ videoPanel.preview # None => videoPanel.selectedFile = videoPanel.preview


=============================================================================
